---- MODULE Spec2Model ----
(***************************************************************************)
(* medrops::GPModel (include/medrops/gp_model.hpp): an ensemble of one     *)
(* scalar Gaussian-process regressor per output dimension, with learn,     *)
(* save_data, predict and predictm.  The tbb::parallel_for fan-outs of     *)
(* learn and predictm are modelled task by task, so that every             *)
(* interleaving of the per-dimension tasks is a behaviour of the model.    *)
(* Numbers are integers; a quotient is kept as the pair [num, den].        *)
(***************************************************************************)
EXTENDS Integers, Sequences, FiniteSets, TLC

VARIABLES
  _gp_models,     \* std::vector<std::shared_ptr<GP>>      (line 198)
  _observations,  \* Eigen::MatrixXd                        (line 200)
  _means,         \* Eigen::VectorXd                        (line 201)
  _sigmas,        \* Eigen::VectorXd                        (line 201)
  _limits,        \* Eigen::VectorXd                        (line 201)
  medrops_data,   \* the file "medrops_data.bin"            (line 61)
  pc,             \* "idle", "learn", "predictm", "returned" or "crashed"
  call,           \* the call in progress or just returned, with its arguments
  samples,        \* learn's local samples                  (line 26)
  obs,            \* learn's local obs                      (line 27)
  task,           \* position of each task of the running parallel_for
  ms,             \* predictm's local ms                    (line 149)
  ss,             \* predictm's local ss                    (line 150)
  out,            \* what the call returned, threw or wrote
  fitted,         \* history: some learn(only_limits = false) has returned normally
  wrote,          \* history: the members the call in progress has assigned
  object,         \* the class of the object: "GPModel" or "MIModel"
  _samples,       \* MIModel::_samples                     (line 330)
  _targets,       \* MIModel::_observations                (line 330)
  _mean,          \* MIModel::_mean                        (line 331)
  _init           \* MIModel::_init                        (line 332)

vars == <<_gp_models, _observations, _means, _sigmas, _limits, medrops_data,
          pc, call, samples, obs, task, ms, ss, out, fitted, wrote,
          object, _samples, _targets, _mean, _init>>

ensemble == <<_gp_models, _observations, _means, _sigmas, _limits>>

locals == <<samples, obs, task, ms, ss>>

\* the members of an MIModel, and which class the object is
mimodel == <<object, _samples, _targets, _mean, _init>>

----------------------------------------------------------------------------
(* Params and the inputs the model draws from *)

\* Params::model_input_dim(): the length of a state
Ds == 1

\* Params::action_dim(): the length of an action
Da == 1

\* Params::model_pred_dim(): the length of a target, the number of regressors
Dt == 2

\* the longest sequence of observations handed to learn
MaxObs == 2

\* the number of distinct well-formed transitions learn is called with
NumTrans == 2

Dims == 1..Dt

\* a transition (state, action, target) whose three vectors have the lengths
\* ls, la, lt; every component tells the transition k and its place apart
Tuple(k, ls, la, lt) ==
  <<[j \in 1..ls |-> k], [j \in 1..la |-> 10 + k], [j \in 1..lt |-> 10 * (j + 1) + k]>>

GoodTransitions == {Tuple(k, Ds, Da, Dt) : k \in 1..NumTrans}

\* transitions with a state, an action or a target one longer than Params says
BadTransitions ==
  {Tuple(NumTrans + 1, Ds + 1, Da, Dt), Tuple(NumTrans + 1, Ds, Da + 1, Dt),
   Tuple(NumTrans + 1, Ds, Da, Dt + 1)}

\* the training sets learn is called with: up to MaxObs distinct transitions,
\* in every order
WellFormedInputs ==
  {s \in UNION {[1..n -> GoodTransitions] : n \in 1..MaxObs} :
     \A i, j \in 1..Len(s) : i # j => s[i] # s[j]}

\* a transition whose lengths differ from the first one's, placed second
MismatchInputs == {<<t, b>> : t \in GoodTransitions, b \in BadTransitions}

LearnInputs == {<<>>} \cup WellFormedInputs \cup MismatchInputs

WellFormed(observations) ==
  /\ Len(observations) > 0
  /\ \A i \in 1..Len(observations) : \A c \in 1..3 :
       Len(observations[i][c]) = Len(observations[1][c])

\* the points predict and predictm are asked about: every well-formed sample
\* and one point no transition holds
Queries ==
  {t[1] \o t[2] : t \in GoodTransitions} \cup {[j \in 1..(Ds + Da) |-> 0]}

\* what a read outside an Eigen buffer may yield
Garbage == {-1, 0}

\* which task throws, and where: <<0, "none">> when none does
NoFail == <<0, "none">>

Failures == {NoFail} \cup (Dims \X {"compute", "optimize"})

NoCall == [op |-> "none", observations |-> <<>>, only_limits |-> FALSE,
           fail |-> NoFail, x |-> <<>>]

NoOut == [status |-> "none", value |-> <<>>]

----------------------------------------------------------------------------
(* Eigen *)

RECURSIVE SumSeq(_)
SumSeq(v) == IF v = <<>> THEN 0 ELSE v[1] + SumSeq(Tail(v))

Abs(a) == IF a < 0 THEN -a ELSE a

Max(a, b) == IF a >= b THEN a ELSE b

\* Eigen::MatrixXd(): the 0 x 0 matrix of a default-constructed member
EmptyMatrix == [rows |-> 0, cols |-> 0, m |-> <<>>]

Col(mat, j) == [i \in 1..mat.rows |-> mat.m[i][j]]

\* VectorXd::mean(): sum() / size(), kept as a quotient
Mean(v) == [num |-> SumSeq(v), den |-> Len(v)]

\* dst = src for a destination of n coefficients: Eigen copies n coefficients
\* and does not resize; g is what a read past the end of src yields
AssignRow(v, n, g) == [j \in 1..n |-> IF j <= Len(v) THEN v[j] ELSE g]

\* the k-th smallest of the values of v
KthSmallest(v, k) ==
  CHOOSE a \in {v[i] : i \in 1..Len(v)} :
    /\ Cardinality({i \in 1..Len(v) : v[i] < a}) < k
    /\ Cardinality({i \in 1..Len(v) : v[i] <= a}) >= k

\* Eigen::percentile(m, p), column by column (nearest rank)
percentile(mat, p) ==
  [j \in 1..mat.cols |->
     IF mat.rows = 0 THEN 0
     ELSE KthSmallest(Col(mat, j), Max(1, (p * mat.rows + 99) \div 100))]

\* Eigen::colwise_sig(m): the population deviation of each column, kept as
\* its square, the quotient (n * sum(x^2) - sum(x)^2) / n^2
colwise_sig(mat) ==
  [j \in 1..mat.cols |->
     [num |-> mat.rows * SumSeq([i \in 1..mat.rows |-> mat.m[i][j] * mat.m[i][j]])
              - SumSeq(Col(mat, j)) * SumSeq(Col(mat, j)),
      den |-> mat.rows * mat.rows]]

\* m.colwise().mean()
colwise_mean(mat) == [j \in 1..mat.cols |-> Mean(Col(mat, j))]

\* m.array().abs()
MatAbs(mat) ==
  [mat EXCEPT !.m = [i \in 1..mat.rows |-> [j \in 1..mat.cols |-> Abs(mat.m[i][j])]]]

\* data.block(0, 0, data.rows(), n)
LeftBlock(mat, n, g) ==
  [rows |-> mat.rows, cols |-> n,
   m |-> [i \in 1..mat.rows |-> AssignRow(mat.m[i], n, g)]]

----------------------------------------------------------------------------
(* The scalar regressor GP, a template parameter of GPModel *)

\* GP(dim_in, 1): no samples, the kernel's default hyperparameters
NewGP == [samples |-> <<>>, observations |-> <<>>, hp |-> 0]

\* GP::compute(samples, observations, noises, false)
compute(gp, xs, ys) == [gp EXCEPT !.samples = xs, !.observations = ys]

\* GP::optimize_hyperparams(): the search starts from the kernel's current
\* hyperparameters and ends at a point the data decide
optimize_hyperparams(gp) ==
  [gp EXCEPT !.hp = 1 + ((gp.hp + SumSeq([k \in 1..Len(gp.observations) |->
                                              gp.observations[k][1]])) % 3)]

\* GP::query(x): (mean, variance); the prior away from the samples and
\* without samples, the observation at a sample
query(gp, x) ==
  LET hits == {k \in 1..Len(gp.samples) : gp.samples[k] = x}
  IN  IF hits = {} THEN <<(<<0>>), 10 + gp.hp>>
      ELSE <<gp.observations[CHOOSE k \in hits : \A l \in hits : k <= l], gp.hp>>

\* GP::compute reads samples[0].size() and takes every sample to have that length
SamplesUsable(xs) ==
  /\ Len(xs) > 0
  /\ \A k \in 1..Len(xs) : Len(xs[k]) = Len(xs[1])

----------------------------------------------------------------------------
(* GPModel's helpers *)

\* lines 34-36: s.head(st.size()) = st; s.tail(act.size()) = act
Sample_Swapped(st, act) == act \o st

Sample(st, act) == st \o act

\* lines 26-42: the samples and the matrix obs; ncols is what line 27 read
\* as std::get<2>(observations[0]).size()
Assemble(observations, ncols, g) ==
  [samples |-> [i \in 1..Len(observations) |->
                  Sample(observations[i][1], observations[i][2])],
   obs |-> [rows |-> Len(observations), cols |-> ncols,
            m |-> [i \in 1..Len(observations) |->
                     AssignRow(observations[i][3], ncols, g)]]]

\* what line 27 may read as the number of columns: the first target's length,
\* and anything when there is no first transition
FirstCols(observations) ==
  IF Len(observations) > 0 THEN {Len(observations[1][3])} ELSE {0, Dt}

\* lines 176-183
_to_vector(mat) == [i \in 1..mat.rows |-> mat.m[i]]

\* obs.col(i): a rows x 1 matrix
ColBlock(mat, j) ==
  [rows |-> mat.rows, cols |-> 1, m |-> [i \in 1..mat.rows |-> <<mat.m[i][j]>>]]

\* lines 186-193; without a first sample xs[0].size() is read as ncols
_to_matrix(xs, ncols, g) ==
  LET c == IF Len(xs) > 0 THEN Len(xs[1]) ELSE ncols
  IN  [rows |-> Len(xs), cols |-> c,
       m |-> [i \in 1..Len(xs) |-> AssignRow(xs[i], c, g)]]

\* lines 45-46: samp
Samp(xs, g) == LeftBlock(_to_matrix(xs, Ds + Da, g), Ds + Da, g)

\* lines 49-51: _limits
Limits(samp) ==
  LET pl == percentile(MatAbs(samp), 5)
      ph == percentile(MatAbs(samp), 95)
  IN  [j \in 1..samp.cols |-> Max(pl[j], ph[j])]

\* lines 56-60: data2
Data2(xs, mat, g) ==
  [rows |-> Len(xs), cols |-> Ds + Da + mat.cols,
   m |-> [i \in 1..Len(xs) |->
            AssignRow(xs[i], Ds + Da, g) \o AssignRow(mat.m[i], Dt, g)]]

\* MeanFunction(): what line 331 constructs before learn has sized it
DefaultMean == [dim |-> 0, h_params |-> 0]

\* MeanFunction(dim): line 294
NewMean(dim) == [dim |-> dim, h_params |-> 0]

\* lines 298-299 and 334-349: the Optimizer's best parameters for the squared
\* error of the mean function on _samples and _observations, searched from
\* the current ones
BestParams(mean, xs, ys) ==
  1 + ((mean.h_params + SumSeq([k \in 1..Len(ys) |-> SumSeq(ys[k])])) % 3)

\* lines 16-22
init == [i \in Dims |-> NewGP]

\* lines 143-144: std::make_tuple(ms, ss.mean())
predict_FirstVariance(r) == <<r[1], [num |-> r[2][1], den |-> 1]>>

predict_tuple(r) == <<r[1], Mean(r[2])>>

----------------------------------------------------------------------------
(* Construction *)

\* lines 11-14 and the member initializers of lines 198-201 for a GPModel,
\* line 271 for an MIModel; the members of the other class stay as they are
Init ==
  /\ object \in {"GPModel", "MIModel"}
  /\ _samples = <<>>
  /\ _targets = <<>>
  /\ _mean = DefaultMean
  /\ _init = FALSE
  /\ _gp_models = init
  /\ _observations = EmptyMatrix
  /\ _means = <<>>
  /\ _sigmas = <<>>
  /\ _limits = <<>>
  /\ medrops_data = EmptyMatrix
  /\ pc = "idle"
  /\ call = NoCall
  /\ samples = <<>>
  /\ obs = EmptyMatrix
  /\ task = <<>>
  /\ ms = <<>>
  /\ ss = <<>>
  /\ out = NoOut
  /\ fitted = FALSE
  /\ wrote = {}

NoLocals ==
  /\ samples' = <<>>
  /\ obs' = EmptyMatrix
  /\ task' = <<>>
  /\ ms' = <<>>
  /\ ss' = <<>>

\* the process ends: a failed assertion of Eigen or an access the system refuses
Crash ==
  /\ pc' = "crashed"
  /\ out' = [status |-> "crashed", value |-> <<>>]
  /\ UNCHANGED <<ensemble, medrops_data, locals, fitted, wrote, mimodel>>

----------------------------------------------------------------------------
(* learn *)

\* lines 53-54: if (only_limits) return;
LearnOnlyLimits_Reinit(a) ==
  /\ _gp_models' = init
  /\ pc' = "returned"
  /\ out' = [status |-> "ok", value |-> <<>>]
  /\ wrote' = {"_observations", "_means", "_sigmas", "_limits", "_gp_models"}
  /\ NoLocals
  /\ UNCHANGED <<medrops_data, fitted, mimodel>>

LearnOnlyLimits(a) ==
  /\ pc' = "returned"
  /\ out' = [status |-> "ok", value |-> <<>>]
  /\ wrote' = {"_observations", "_means", "_sigmas", "_limits"}
  /\ NoLocals
  /\ UNCHANGED <<_gp_models, medrops_data, fitted, mimodel>>

\* lines 56-68: the snapshot file, init(), and the start of the parallel_for
\* over obs.cols() tasks
LearnFit_NoInit(a, g) ==
  /\ medrops_data' = Data2(a.samples, a.obs, g)
  /\ UNCHANGED _gp_models
  /\ samples' = a.samples
  /\ obs' = a.obs
  /\ task' = [i \in 1..a.obs.cols |-> "ready"]
  /\ ms' = <<>>
  /\ ss' = <<>>
  /\ pc' = "learn"
  /\ out' = NoOut
  /\ wrote' = {"_observations", "_means", "_sigmas", "_limits", "_gp_models"}
  /\ UNCHANGED <<fitted, mimodel>>

LearnFit(a, g) ==
  /\ medrops_data' = Data2(a.samples, a.obs, g)
  /\ _gp_models' = init
  /\ samples' = a.samples
  /\ obs' = a.obs
  /\ task' = [i \in 1..a.obs.cols |-> "ready"]
  /\ ms' = <<>>
  /\ ss' = <<>>
  /\ pc' = "learn"
  /\ out' = NoOut
  /\ wrote' = {"_observations", "_means", "_sigmas", "_limits", "_gp_models"}
  /\ UNCHANGED <<fitted, mimodel>>

\* lines 24-68.  observations[0] of an empty sequence (line 27), and an
\* assignment between vectors of different lengths (lines 39 and 190), are
\* undefined: the call ends the process, or goes on with what was read.
\* fail names the task whose GP call will throw.
learn(observations, only_limits, fail) ==
  /\ object = "GPModel"
  /\ pc = "idle"
  /\ (only_limits \/ ~WellFormed(observations)) => fail = NoFail
  /\ call' = [op |-> "learn", observations |-> observations,
              only_limits |-> only_limits, fail |-> fail, x |-> <<>>]
  /\ \/ /\ ~WellFormed(observations)
        /\ Crash
     \/ \E ncols \in FirstCols(observations), g \in Garbage :
          LET a == Assemble(observations, ncols, g)
              samp == Samp(a.samples, g)
          IN  /\ _observations' = a.obs
              /\ _means' = colwise_mean(samp)
              /\ _sigmas' = colwise_sig(samp)
              /\ _limits' = Limits(samp)
              /\ IF only_limits THEN LearnOnlyLimits(a) ELSE LearnFit(a, g)

\* line 70: task i of the parallel_for fits regressor i on the samples and on
\* column i of obs.  A task that has not started when another has thrown is
\* cancelled.  GP::compute on samples it cannot use is undefined.
LearnTaskCompute_Index1(i) ==
  /\ pc = "learn"
  /\ i \in DOMAIN task
  /\ task[i] = "ready"
  /\ \A j \in DOMAIN task : task[j] # "failed"
  /\ \/ /\ call.fail = <<i, "compute">>
        /\ task' = [task EXCEPT ![i] = "failed"]
        /\ UNCHANGED <<ensemble, medrops_data, pc, call, samples, obs, ms, ss,
                       out, fitted, wrote, mimodel>>
     \/ /\ call.fail # <<i, "compute">>  \* also what goes on after the undefined
        /\ i \in Dims
        /\ _gp_models' = [_gp_models EXCEPT
                            ![1] = compute(@, samples, _to_vector(ColBlock(obs, i)))]
        /\ task' = [task EXCEPT ![i] = "computed"]
        /\ UNCHANGED <<_observations, _means, _sigmas, _limits, medrops_data, pc,
                       call, samples, obs, ms, ss, out, fitted, wrote, mimodel>>
     \/ /\ call.fail # <<i, "compute">>
        /\ ~(i \in Dims /\ SamplesUsable(samples))
        /\ call' = call
        /\ Crash

LearnTaskCompute(i) ==
  /\ pc = "learn"
  /\ i \in DOMAIN task
  /\ task[i] = "ready"
  /\ \A j \in DOMAIN task : task[j] # "failed"
  /\ \/ /\ call.fail = <<i, "compute">>
        /\ task' = [task EXCEPT ![i] = "failed"]
        /\ UNCHANGED <<ensemble, medrops_data, pc, call, samples, obs, ms, ss,
                       out, fitted, wrote, mimodel>>
     \/ /\ call.fail # <<i, "compute">>  \* also what goes on after the undefined
        /\ i \in Dims
        /\ _gp_models' = [_gp_models EXCEPT
                            ![i] = compute(@, samples, _to_vector(ColBlock(obs, i)))]
        /\ task' = [task EXCEPT ![i] = "computed"]
        /\ UNCHANGED <<_observations, _means, _sigmas, _limits, medrops_data, pc,
                       call, samples, obs, ms, ss, out, fitted, wrote, mimodel>>
     \/ /\ call.fail # <<i, "compute">>
        /\ ~(i \in Dims /\ SamplesUsable(samples))
        /\ call' = call
        /\ Crash

\* line 74: task i optimizes the hyperparameters of regressor i
LearnTaskOptimize(i) ==
  /\ pc = "learn"
  /\ i \in DOMAIN task
  /\ task[i] = "computed"
  /\ \/ /\ call.fail = <<i, "optimize">>
        /\ task' = [task EXCEPT ![i] = "failed"]
        /\ UNCHANGED _gp_models
     \/ /\ call.fail # <<i, "optimize">>
        /\ _gp_models' = [_gp_models EXCEPT ![i] = optimize_hyperparams(@)]
        /\ task' = [task EXCEPT ![i] = "done"]
  /\ UNCHANGED <<_observations, _means, _sigmas, _limits, medrops_data, pc, call,
                 samples, obs, ms, ss, out, fitted, wrote, mimodel>>

\* line 75, a task has thrown: parallel_for waits for the tasks that run and
\* rethrows; learn catches nothing, so its caller gets the exception
LearnThrow ==
  /\ pc = "learn"
  /\ \E i \in DOMAIN task : task[i] = "failed"
  /\ \A i \in DOMAIN task : task[i] # "computed"
  /\ pc' = "returned"
  /\ out' = [status |-> "exception", value |-> <<>>]
  /\ NoLocals
  /\ UNCHANGED <<ensemble, medrops_data, call, fitted, wrote, mimodel>>

\* lines 75-117, no task has thrown: parallel_for returns when every task has
\* ended; learn prints the hyperparameters and returns
LearnReturn_AnyDone ==
  /\ pc = "learn"
  /\ \A i \in DOMAIN task : task[i] # "failed"
  /\ \E i \in DOMAIN task : task[i] = "done"
  /\ pc' = "returned"
  /\ out' = [status |-> "ok", value |-> <<>>]
  /\ fitted' = TRUE
  /\ NoLocals
  /\ UNCHANGED <<ensemble, medrops_data, call, wrote, mimodel>>

LearnReturn ==
  /\ pc = "learn"
  /\ \A i \in DOMAIN task : task[i] = "done"
  /\ pc' = "returned"
  /\ out' = [status |-> "ok", value |-> <<>>]
  /\ fitted' = TRUE
  /\ NoLocals
  /\ UNCHANGED <<ensemble, medrops_data, call, wrote, mimodel>>

----------------------------------------------------------------------------
(* predict and predictm *)

\* lines 149-151: ms and ss are allocated, no coefficient of them is set, and
\* the parallel_for over _gp_models.size() tasks starts
PredictmStart(op, x) ==
  /\ object = "GPModel"
  /\ pc = "idle"
  /\ call' = [op |-> op, observations |-> <<>>, only_limits |-> FALSE,
              fail |-> NoFail, x |-> x]
  /\ pc' = "predictm"
  /\ task' = [i \in 1..Len(_gp_models) |-> "ready"]
  /\ ms' = <<>>
  /\ ss' = <<>>
  /\ UNCHANGED <<ensemble, medrops_data, samples, obs, out, fitted, wrote, mimodel>>

\* lines 139-143: predict calls predictm
predict(x) == PredictmStart("predict", x)

\* lines 147-151
predictm(x) == PredictmStart("predictm", x)

\* v(i) = a on a vector whose coefficients in set are set
SetCoeff(v, i, a) == [j \in DOMAIN v \cup {i} |-> IF j = i THEN a ELSE v[j]]

\* lines 152-156: task i queries regressor i and sets ms(i) and ss(i)
PredictmTask(i) ==
  /\ pc = "predictm"
  /\ i \in DOMAIN task
  /\ task[i] = "ready"
  /\ LET r == query(_gp_models[i], call.x)
     IN  /\ ms' = SetCoeff(ms, i, r[1][1])
         /\ ss' = SetCoeff(ss, i, r[2])
  /\ task' = [task EXCEPT ![i] = "done"]
  /\ UNCHANGED <<ensemble, medrops_data, pc, call, samples, obs, out, fitted, wrote, mimodel>>

\* lines 157-158, and lines 143-144 when predict made the call
PredictmReturn ==
  /\ pc = "predictm"
  /\ \A i \in DOMAIN task : task[i] = "done"
  /\ pc' = "returned"
  /\ out' = [status |-> "ok",
             value |-> IF call.op = "predict" THEN predict_tuple(<<ms, ss>>)
                       ELSE <<ms, ss>>]
  /\ NoLocals
  /\ UNCHANGED <<ensemble, medrops_data, call, fitted, wrote, mimodel>>

----------------------------------------------------------------------------
(* save_data *)

\* lines 125-136: the rows written; observations(i, j) on a row the matrix
\* does not have reads g
SavedRows(g) ==
  LET xs == _gp_models[1].samples
  IN  [i \in 1..Len(xs) |->
         AssignRow(xs[i], Len(xs[1]), g)
         \o (IF i <= _observations.rows THEN _observations.m[i]
             ELSE [j \in 1.._observations.cols |-> g])]

\* lines 119-137
save_data ==
  /\ object = "GPModel"
  /\ pc = "idle"
  /\ call' = [op |-> "save_data", observations |-> <<>>, only_limits |-> FALSE,
              fail |-> NoFail, x |-> <<>>]
  /\ \/ /\ Len(_gp_models[1].samples) > _observations.rows
        /\ Crash
     \/ /\ \E g \in Garbage : out' = [status |-> "ok", value |-> SavedRows(g)]
        /\ pc' = "returned"
        /\ UNCHANGED <<ensemble, medrops_data, locals, fitted, wrote, mimodel>>

----------------------------------------------------------------------------
(* MIModel *)

\* lines 273-304.  only_limits is not read.  _samples[0] of an empty vector
\* (line 294), the assert of line 336 and the difference of vectors of
\* different lengths (line 345) end the process or go on
mi_learn(observations, only_limits) ==
  /\ object = "MIModel"
  /\ pc = "idle"
  /\ call' = [op |-> "mi_learn", observations |-> observations,
              only_limits |-> only_limits, fail |-> NoFail, x |-> <<>>]
  /\ \/ /\ ~WellFormed(observations)
        /\ Crash
     \/ LET xs == [i \in 1..Len(observations) |->
                    Sample(observations[i][1], observations[i][2])]
            ys == [i \in 1..Len(observations) |-> observations[i][3]]
            mean == IF _init THEN _mean
                    ELSE NewMean(IF Len(xs) > 0 THEN Len(xs[1]) ELSE 0)
        IN  /\ _samples' = xs
            /\ _targets' = ys
            /\ _init' = TRUE
            /\ _mean' = [mean EXCEPT !.h_params = BestParams(mean, xs, ys)]
            /\ pc' = "returned"
            /\ out' = [status |-> "ok", value |-> <<>>]
            /\ UNCHANGED <<ensemble, medrops_data, locals, fitted, wrote, object>>

\* lines 306-319
mi_save_data ==
  /\ object = "MIModel"
  /\ pc = "idle"
  /\ call' = [op |-> "mi_save_data", observations |-> <<>>, only_limits |-> FALSE,
              fail |-> NoFail, x |-> <<>>]
  /\ \E g \in Garbage :
       out' = [status |-> "ok",
               value |-> [i \in 1..Len(_samples) |->
                            AssignRow(_samples[i], Len(_samples[1]), g)
                            \o AssignRow(_targets[i], Len(_targets[1]), g)]]
  /\ pc' = "returned"
  /\ UNCHANGED <<ensemble, medrops_data, locals, fitted, wrote, mimodel>>

\* lines 321-327: the mean function's value and a zero vector of its length
mi_predict(x) ==
  /\ object = "MIModel"
  /\ pc = "idle"
  /\ call' = [op |-> "mi_predict", observations |-> <<>>, only_limits |-> FALSE,
              fail |-> NoFail, x |-> x]
  /\ LET mu == [j \in Dims |-> _mean.h_params + x[1]]
     IN  out' = [status |-> "ok", value |-> <<mu, [j \in 1..Len(mu) |-> 0]>>]
  /\ pc' = "returned"
  /\ UNCHANGED <<ensemble, medrops_data, locals, fitted, wrote, mimodel>>

----------------------------------------------------------------------------
(* The caller *)

\* the caller takes what the call returned or threw; its next call finds the
\* members as the call left them
Resume ==
  /\ pc = "returned"
  /\ pc' = "idle"
  /\ call' = NoCall
  /\ out' = NoOut
  /\ wrote' = {}
  /\ UNCHANGED <<ensemble, medrops_data, locals, fitted, mimodel>>

Next ==
  \/ \E observations \in LearnInputs, only_limits \in BOOLEAN, fail \in Failures :
       learn(observations, only_limits, fail)
  \/ \E i \in Dims : LearnTaskCompute(i)
  \/ \E i \in Dims : LearnTaskOptimize(i)
  \/ LearnThrow
  \/ LearnReturn
  \/ \E x \in Queries : predict(x)
  \/ \E x \in Queries : predictm(x)
  \/ \E i \in Dims : PredictmTask(i)
  \/ PredictmReturn
  \/ save_data
  \/ \E observations \in LearnInputs, only_limits \in BOOLEAN :
       mi_learn(observations, only_limits)
  \/ mi_save_data
  \/ \E x \in Queries : mi_predict(x)
  \/ Resume

Spec == Init /\ [][Next]_vars

----------------------------------------------------------------------------
(* What the claims are stated with *)

\* state_i followed by action_i, for every transition, in order
ConcatSamples(observations) ==
  [k \in 1..Len(observations) |-> observations[k][1] \o observations[k][2]]

\* column i of the targets, one 1-vector per transition, in order
TargetColumn(observations, i) ==
  [k \in 1..Len(observations) |-> <<observations[k][3][i]>>]

\* the matrix of the samples' first Ds + Da components
SampleMatrix(observations) ==
  [rows |-> Len(observations), cols |-> Ds + Da,
   m |-> ConcatSamples(observations)]

\* a regressor constructed, fit on the call's samples and on column i of its
\* targets, and then optimized
FreshFit(observations, i) ==
  optimize_hyperparams(
    compute(NewGP, ConcatSamples(observations), TargetColumn(observations, i)))

QueryMeans(x) == [i \in Dims |-> query(_gp_models[i], x)[1][1]]

QueryVariances(x) == [i \in Dims |-> query(_gp_models[i], x)[2]]

Returned(op) == pc = "returned" /\ call.op = op

\* a learn(only_limits = false) on consistent, non-empty transitions has
\* returned normally
FitReturned ==
  /\ Returned("learn")
  /\ ~call.only_limits
  /\ out.status = "ok"
  /\ WellFormed(call.observations)

----------------------------------------------------------------------------
(* C1 *)

\* C1: on an ensemble on which no learn(only_limits = false) has returned
\* normally, predict, predictm and save_data fail with NotFittedError
C1_NotFittedError ==
  (/\ pc = "returned"
   /\ call.op \in {"predict", "predictm", "save_data"}
   /\ ~fitted)
  => out.status = "NotFittedError"

(* C2 *)

\* C2: when the fit or the optimization of a dimension fails during
\* learn(only_limits = false), the call has assigned none of the regressors,
\* the target matrix and the diagnostics: they are those from before the call
C2_FailedLearnKeepsState ==
  (Returned("learn") /\ out.status = "exception") => wrote = {}

(* C3 *)

\* C3: learn(transitions, only_limits = true) leaves every regressor as it
\* was, so every query is answered as before, and the diagnostics after it
\* are those of the new transitions' samples
C3_OnlyLimitsKeepsRegressors ==
  [][(/\ pc = "idle"
      /\ call'.op = "learn"
      /\ call'.only_limits
      /\ WellFormed(call'.observations))
     => (/\ pc' = "returned"
         /\ out'.status = "ok"
         /\ _gp_models' = _gp_models
         /\ \A x \in Queries : \A i \in Dims :
              query(_gp_models'[i], x) = query(_gp_models[i], x)
         /\ _means' = colwise_mean(SampleMatrix(call'.observations))
         /\ _sigmas' = colwise_sig(SampleMatrix(call'.observations))
         /\ _limits' = Limits(SampleMatrix(call'.observations)))]_vars

\* a learn(only_limits = true) has returned on a fitted ensemble whose
\* regressors hold other samples than the call's
C3_Witness ==
  /\ Returned("learn")
  /\ call.only_limits
  /\ fitted
  /\ WellFormed(call.observations)
  /\ _gp_models[1].samples # <<>>
  /\ _gp_models[1].samples # ConcatSamples(call.observations)
  /\ _means = colwise_mean(SampleMatrix(call.observations))

(* C4 *)

\* C4: between calls the samples of regressor 0 and the rows of _observations
\* are as many, and row i of both comes from the same transition
C4_SamplesAlignedWithTargets ==
  pc \in {"idle", "returned"}
  => (/\ Len(_gp_models[1].samples) = _observations.rows
      /\ \A i \in 1..Len(_gp_models[1].samples) :
           \E t \in GoodTransitions \cup BadTransitions :
             /\ _gp_models[1].samples[i] = t[1] \o t[2]
             /\ _observations.m[i] = t[3])

(* C5 *)

\* C5: learn on an empty sequence fails with EmptyInputError, learn on
\* transitions of different lengths fails with DimensionMismatchError, and
\* neither assigns a regressor, the target matrix or the diagnostics
C5_InvalidInputRejected ==
  (/\ call.op = "learn"
   /\ ~WellFormed(call.observations))
  => (/\ pc = "returned"
      /\ out.status = (IF call.observations = <<>> THEN "EmptyInputError"
                       ELSE "DimensionMismatchError")
      /\ wrote = {})

(* C6 *)

\* C6: when learn(only_limits = false) returns, every regressor i holds the
\* samples of this call and column i of its targets, and has been optimized
C6_LearnReturnsAfterAllFits ==
  FitReturned
  => \A i \in Dims :
       /\ _gp_models[i].samples = ConcatSamples(call.observations)
       /\ _gp_models[i].observations = TargetColumn(call.observations, i)
       /\ _gp_models[i].hp # NewGP.hp

\* a fit on two transitions has returned
C6_Witness ==
  /\ FitReturned
  /\ Len(call.observations) = 2
  /\ \A i \in Dims : Len(_gp_models[i].samples) = 2

(* C7 *)

\* C7: predict(x) returns the means predictm(x) returns, component i being
\* regressor i's mean for x, with the arithmetic mean of the Dt variances;
\* predictm(x) returns the means and the variances; neither changes the
\* ensemble
C7_PredictCollapsesPredictm ==
  [][/\ call'.op \in {"predict", "predictm"} => ensemble' = ensemble
     /\ (pc' = "returned" /\ call'.op = "predict")
        => /\ out'.value[1] = [i \in Dims |-> query(_gp_models'[i], call'.x)[1][1]]
           /\ Len(out'.value[1]) = Dt
           /\ out'.value[2].den = Dt
           /\ out'.value[2].num =
                SumSeq([i \in Dims |-> query(_gp_models'[i], call'.x)[2]])
     /\ (pc' = "returned" /\ call'.op = "predictm")
        => /\ out'.value[1] = [i \in Dims |-> query(_gp_models'[i], call'.x)[1][1]]
           /\ out'.value[2] = [i \in Dims |-> query(_gp_models'[i], call'.x)[2]]
    ]_vars

\* predict has returned on a fitted ensemble whose regressors give different
\* variances
C7_Witness ==
  /\ Returned("predict")
  /\ fitted
  /\ out.status = "ok"
  /\ QueryVariances(call.x)[1] # QueryVariances(call.x)[2]
  /\ out.value[1] = QueryMeans(call.x)
  /\ out.value[1] # [i \in Dims |-> 0]

(* C8 *)

\* C8: for consistent, non-empty transitions the samples and the target
\* matrix learn assembles have one row per transition, sample i being state_i
\* followed by action_i and target row i being target_i
C8_AssemblyGP ==
  (pc = "learn" /\ WellFormed(call.observations))
  => (/\ Len(samples) = Len(call.observations)
      /\ obs.rows = Len(call.observations)
      /\ _observations = obs
      /\ \A i \in 1..Len(call.observations) :
           /\ samples[i] = call.observations[i][1] \o call.observations[i][2]
           /\ obs.m[i] = call.observations[i][3])

\* the same of MIModel::learn, whose samples and targets are its members
C8_AssemblyMI ==
  (Returned("mi_learn") /\ out.status = "ok" /\ WellFormed(call.observations))
  => (/\ Len(_samples) = Len(call.observations)
      /\ Len(_targets) = Len(call.observations)
      /\ \A i \in 1..Len(call.observations) :
           /\ _samples[i] = call.observations[i][1] \o call.observations[i][2]
           /\ _targets[i] = call.observations[i][3])

C8_Assembly == C8_AssemblyGP /\ C8_AssemblyMI

\* learn has assembled two transitions
C8_Witness ==
  /\ pc = "learn"
  /\ WellFormed(call.observations)
  /\ Len(samples) = 2
  /\ samples[1] # samples[2]

(* C9 *)

\* C9: the ensemble always holds Dt regressors; in learn(only_limits = false)
\* a regressor whose task has not started is a newly constructed one, one
\* that is fit has the default hyperparameters, and at the return every
\* regressor is what a newly constructed one becomes on this call's data
C9_FreshRegressors ==
  /\ Len(_gp_models) = Dt
  /\ pc = "learn"
     => \A i \in DOMAIN task :
          /\ task[i] = "ready" => _gp_models[i] = NewGP
          /\ task[i] = "computed" => _gp_models[i].hp = NewGP.hp
  /\ FitReturned
     => \A i \in Dims : _gp_models[i] = FreshFit(call.observations, i)

\* a second fit has started on an ensemble that was fitted
C9_Witness ==
  /\ pc = "learn"
  /\ fitted
  /\ WellFormed(call.observations)
  /\ \A i \in Dims : task[i] = "ready" /\ _gp_models[i] = NewGP

(* C10 *)

====
